---- MODULE Spec2Model ----
(***************************************************************************)
(* Model of the Skyline plugin's BatchSizeStore                            *)
(* (src/plugin/lib/stores/batchsize_store.js) together with the observer   *)
(* plumbing of its base store (the pattern of innpv_store.js) and the      *)
(* text buffer it rewrites the "@innpv size (...)" annotation in.          *)
(*                                                                         *)
(* JavaScript numbers are modelled as exact fractions n/d (d > 0), plus    *)
(* the IEEE specials +Infinity (1/0), -Infinity (-1/0) and NaN (0/0).      *)
(* Floating-point rounding error is not modelled.                          *)
(***************************************************************************)
EXTENDS Integers, Sequences, FiniteSets, TLC

(***************************************************************************)
(* Bounds of the model.                                                    *)
(***************************************************************************)
\* receivedAnalysis is accepted at most this many times in one behaviour
MaxAnalyses == 2
\* at most this many callbacks are registered on the emitter at once
MaxListeners == 1

(***************************************************************************)
(* JavaScript values.                                                      *)
(***************************************************************************)
\* JavaScript null (every value of the model is a record, so that null can
\* be compared with numbers and objects)
Null == [null |-> TRUE]

Abs(i) == IF i < 0 THEN -i ELSE i

Sign(i) == IF i < 0 THEN -1 ELSE IF i > 0 THEN 1 ELSE 0

RECURSIVE GCD(_, _)
GCD(a, b) == IF b = 0 THEN a ELSE GCD(b, a % b)

\* the number n/d in lowest terms; d = 0 gives Infinity, -Infinity or NaN
\* by the sign of n, as IEEE division by zero does
Num(n, d) ==
    IF d = 0 THEN [n |-> Sign(n), d |-> 0]
    ELSE LET g == GCD(Abs(n), Abs(d))
             s == IF d < 0 THEN -1 ELSE 1
         IN  [n |-> s * (n \div g), d |-> s * (d \div g)]

Int2Num(i) == [n |-> i, d |-> 1]

NaN == [n |-> 0, d |-> 0]

PosInf == [n |-> 1, d |-> 0]

NegInf == [n |-> -1, d |-> 0]

IsNaN(x) == x.d = 0 /\ x.n = 0

IsFinite(x) == x.d > 0

\* x < y on JavaScript numbers (false whenever an operand is NaN)
JSLt(x, y) ==
    IF IsNaN(x) \/ IsNaN(y) THEN FALSE
    ELSE IF x.d = 0 /\ y.d = 0 THEN x.n < y.n
    ELSE IF x.d = 0 THEN x.n < 0
    ELSE IF y.d = 0 THEN y.n > 0
    ELSE x.n * y.d < y.n * x.d

JSLe(x, y) == (~IsNaN(x)) /\ (~IsNaN(y)) /\ ~JSLt(y, x)

\* x - y
JSSub(x, y) ==
    IF IsNaN(x) \/ IsNaN(y) THEN NaN
    ELSE IF x.d = 0 /\ y.d = 0 THEN (IF x.n = y.n THEN NaN ELSE x)
    ELSE IF x.d = 0 THEN x
    ELSE IF y.d = 0 THEN [n |-> -y.n, d |-> 0]
    ELSE Num(x.n * y.d - y.n * x.d, x.d * y.d)

\* x + y
JSAdd(x, y) == JSSub(x, [n |-> -y.n, d |-> y.d])

\* x * y
JSMul(x, y) ==
    IF IsNaN(x) \/ IsNaN(y) THEN NaN
    ELSE IF x.d = 0 \/ y.d = 0 THEN Num(Sign(x.n) * Sign(y.n), 0)
    ELSE Num(x.n * y.n, x.d * y.d)

\* x / y: a finite x over zero is +-Infinity, 0/0 is NaN
JSDiv(x, y) ==
    IF IsNaN(x) \/ IsNaN(y) THEN NaN
    ELSE IF x.d = 0 /\ y.d = 0 THEN NaN
    ELSE IF x.d = 0 THEN Num(Sign(x.n) * (IF y.n < 0 THEN -1 ELSE 1), 0)
    ELSE IF y.d = 0 THEN Int2Num(0)
    ELSE IF y.n = 0 THEN Num(Sign(x.n), 0)
    ELSE Num(x.n * y.d, x.d * y.n)

\* Math.min and Math.max return NaN when an argument is NaN
MathMin(x, y) ==
    IF IsNaN(x) \/ IsNaN(y) THEN NaN ELSE IF JSLt(y, x) THEN y ELSE x

MathMax(x, y) ==
    IF IsNaN(x) \/ IsNaN(y) THEN NaN ELSE IF JSLt(x, y) THEN y ELSE x

\* Math.floor of a finite number, as an integer
FloorInt(x) == x.n \div x.d

\* Math.round: the nearest integer, halves rounded towards +Infinity;
\* Infinity and NaN are returned as they are
MathRound(x) ==
    IF x.d = 0 THEN x ELSE Int2Num((2 * x.n + x.d) \div (2 * x.d))

(***************************************************************************)
(* Text: a string is a sequence of one-character strings.                  *)
(***************************************************************************)
Digits == <<"0", "1", "2", "3", "4", "5", "6", "7", "8", "9">>

RECURSIVE NatToText(_)
NatToText(i) ==
    IF i < 10 THEN <<Digits[i + 1]>>
    ELSE NatToText(i \div 10) \o <<Digits[(i % 10) + 1]>>

\* String(x) for the numbers an annotation can hold
NumToText(x) ==
    IF IsNaN(x) THEN <<"N", "a", "N">>
    ELSE IF x.d = 0 THEN
        (IF x.n < 0 THEN <<"-">> ELSE <<>>)
            \o <<"I", "n", "f", "i", "n", "i", "t", "y">>
    ELSE IF x.n < 0 THEN <<"-">> \o NatToText(-x.n)
    ELSE NatToText(x.n)

\* Array.prototype.join(', ') over an array of numbers
RECURSIVE Join(_)
Join(xs) ==
    IF Len(xs) = 0 THEN <<>>
    ELSE IF Len(xs) = 1 THEN NumToText(xs[1])
    ELSE NumToText(xs[1]) \o <<",", " ">> \o Join(Tail(xs))

AnnotationPrefix == <<"@", "i", "n", "n", "p", "v", " ", "s", "i", "z", "e", " ", "(">>

\* the annotation `@innpv size (v0, v1, ..., vn)` of a tuple of numbers
AnnotationText(values) == AnnotationPrefix \o Join(values) \o <<")">>

(***************************************************************************)
(* The analyses the store can receive.  Models have a strictly positive    *)
(* slope and the capacity is positive; the runtime model's intercept is    *)
(* positive (throughput increases with batch size).                        *)
(***************************************************************************)
MemoryInfos ==
    { [usageModelMb |-> [slope |-> 50, intercept |-> 200], maxCapacityMb |-> 8000],
      [usageModelMb |-> [slope |-> 3, intercept |-> 1], maxCapacityMb |-> 12],
      [usageModelMb |-> [slope |-> 50, intercept |-> 200], maxCapacityMb |-> 220] }

ThroughputInfos ==
    { [runtimeModelMs |-> [slope |-> 2, intercept |-> 10],
       maxThroughput |-> 400, throughputLimit |-> lim] : lim \in {450, 500, 600} }

\* the input sizes the annotation in the file can start with
InputSizes == { <<32, 3, 224>> }

\* the slider positions: percentage-point baseline and signed change
BasePcts == {0, 100}

DeltaPcts == {-50, 0, 25, 50, 1000}

ListenerIds == {"f"}

(***************************************************************************)
(* State.                                                                  *)
(***************************************************************************)
VARIABLES
    \* BatchSizeStore fields
    throughputInfo, memoryInfo, inputInfo,
    predictedBatchSize, maxBatchSize,
    currentAnnotationRange, currentUndoCheckpoint,
    \* the callbacks registered on the store's emitter, in registration order
    listeners,
    \* the editor: buffer text (a sequence of lines), its undo history, the
    \* next checkpoint id, and whether the plugin is subscribed to the
    \* buffer's change events
    buffer, undoStack, nextCheckpointId, editorSubscribed,
    \* the last call made on the store: its name, its numeric arguments, the
    \* analysis passed (receivedAnalysis), whether it threw
    lastCall,
    \* what the last call did, in order (collaborator calls and emitted events)
    opTrace,
    \* the value the last getter call returned
    returned

vars == <<throughputInfo, memoryInfo, inputInfo, predictedBatchSize, maxBatchSize,
          currentAnnotationRange, currentUndoCheckpoint, listeners,
          buffer, undoStack, nextCheckpointId, editorSubscribed,
          lastCall, opTrace, returned>>

\* the whole state as one record, threaded through the statements of a method
World ==
    [throughputInfo |-> throughputInfo, memoryInfo |-> memoryInfo,
     inputInfo |-> inputInfo, predictedBatchSize |-> predictedBatchSize,
     maxBatchSize |-> maxBatchSize,
     currentAnnotationRange |-> currentAnnotationRange,
     currentUndoCheckpoint |-> currentUndoCheckpoint,
     listeners |-> listeners, buffer |-> buffer, undoStack |-> undoStack,
     nextCheckpointId |-> nextCheckpointId, editorSubscribed |-> editorSubscribed,
     lastCall |-> lastCall, opTrace |-> opTrace, returned |-> returned]

SetWorld(w) ==
    /\ throughputInfo' = w.throughputInfo
    /\ memoryInfo' = w.memoryInfo
    /\ inputInfo' = w.inputInfo
    /\ predictedBatchSize' = w.predictedBatchSize
    /\ maxBatchSize' = w.maxBatchSize
    /\ currentAnnotationRange' = w.currentAnnotationRange
    /\ currentUndoCheckpoint' = w.currentUndoCheckpoint
    /\ listeners' = w.listeners
    /\ buffer' = w.buffer
    /\ undoStack' = w.undoStack
    /\ nextCheckpointId' = w.nextCheckpointId
    /\ editorSubscribed' = w.editorSubscribed
    /\ lastCall' = w.lastCall
    /\ opTrace' = w.opTrace
    /\ returned' = w.returned

\* a call begins: the record of the previous call is dropped
BeginCall(w, op, args) ==
    [w EXCEPT !.lastCall = [op |-> op, args |-> args, analysis |-> Null,
                            threw |-> FALSE],
              !.opTrace = <<>>, !.returned = Null]

\* a TypeError (a method called on null) leaves the method at once
Throw(w) == [w EXCEPT !.lastCall.threw = TRUE]

Event(w, call) == [call |-> call, subscribed |-> w.editorSubscribed, seen |-> Null]

Record(w, call) == [w EXCEPT !.opTrace = Append(@, Event(w, call))]

(***************************************************************************)
(* The editor's text buffer (Atom TextBuffer).  Points are zero-based      *)
(* (row, column); a range ends before its end column.  The annotation is   *)
(* on one line, so ranges stay within one row.                             *)
(***************************************************************************)
Min2(a, b) == IF a < b THEN a ELSE b

Max2(a, b) == IF a < b THEN b ELSE a

\* new Range([startLine, startColumn], [endLine, endColumn])
Range(startLine, startColumn, endLine, endColumn) ==
    [start |-> [row |-> startLine, column |-> startColumn],
     end |-> [row |-> endLine, column |-> endColumn]]

\* TextBuffer.clipRange: columns are clipped to the line
ClipRange(buf, range) ==
    LET n == Len(buf[range.start.row + 1])
        c0 == Max2(0, Min2(range.start.column, n))
        c1 == Max2(c0, Min2(range.end.column, n))
    IN  Range(range.start.row, c0, range.start.row, c1)

\* TextBuffer.getTextInRange
getTextInRange(buf, range) ==
    LET r == ClipRange(buf, range)
    IN  SubSeq(buf[r.start.row + 1], r.start.column + 1, r.end.column)

\* the range TextBuffer.setTextInRange returns: the range of the new text
NewRange(buf, range, text) ==
    LET r == ClipRange(buf, range)
    IN  Range(r.start.row, r.start.column, r.start.row, r.start.column + Len(text))

\* TextBuffer.setTextInRange: replaces the text of the range, records the
\* change in the undo history and emits a change event
setTextInRange(w, range, text) ==
    LET r == ClipRange(w.buffer, range)
        line == w.buffer[r.start.row + 1]
        newLine == SubSeq(line, 1, r.start.column) \o text
                       \o SubSeq(line, r.end.column + 1, Len(line))
    IN  [Record(w, "setTextInRange") EXCEPT
            !.buffer[r.start.row + 1] = newLine,
            !.undoStack = Append(@, [kind |-> "change", id |-> 0])]

\* TextBuffer.createCheckpoint: pushes a checkpoint and returns its id
createCheckpoint(w) ==
    [Record(w, "createCheckpoint") EXCEPT
        !.undoStack = Append(@, [kind |-> "checkpoint", id |-> w.nextCheckpointId]),
        !.nextCheckpointId = @ + 1]

\* the index of checkpoint id in the undo stack, 0 when it is not there
CheckpointIndex(stack, id) ==
    LET hits == { i \in 1..Len(stack) :
                    stack[i].kind = "checkpoint" /\ stack[i].id = id }
    IN  IF hits = {} THEN 0 ELSE CHOOSE i \in hits : \A j \in hits : j <= i

\* TextBuffer.groupChangesSinceCheckpoint: every change above the checkpoint
\* becomes one transaction (checkpoints above it are dropped); nothing is
\* done when the checkpoint is not in the history
groupChangesSinceCheckpoint(w, checkpoint) ==
    LET w1 == Record(w, "groupChangesSinceCheckpoint")
        i == IF checkpoint = Null THEN 0
             ELSE CheckpointIndex(w.undoStack, checkpoint.id)
        changed == \E j \in (i + 1)..Len(w.undoStack) : w.undoStack[j].kind = "change"
    IN  IF i = 0 \/ ~changed THEN w1
        ELSE [w1 EXCEPT !.undoStack =
                 Append(SubSeq(w.undoStack, 1, i), [kind |-> "change", id |-> 0])]

\* the undo steps (changes and transactions) above checkpoint id
ChangesSince(stack, id) ==
    LET i == CheckpointIndex(stack, id)
    IN  Cardinality({ j \in (i + 1)..Len(stack) : stack[j].kind = "change" })

\* INNPVStore.ignoreEditorChanges: the plugin stops listening to the buffer
ignoreEditorChanges(w) ==
    [Record(w, "ignoreEditorChanges") EXCEPT !.editorSubscribed = FALSE]

\* INNPVStore.subscribeToEditorChanges: the plugin listens to the buffer again
subscribeToEditorChanges(w) ==
    [Record(w, "subscribeToEditorChanges") EXCEPT !.editorSubscribed = TRUE]

(***************************************************************************)
(* utils: the model evaluation and its two inversions.                     *)
(***************************************************************************)
\* evaluateLinearModel: slope * x + intercept
evaluateLinearModel(model, x) ==
    JSAdd(JSMul(Int2Num(model.slope), x), Int2Num(model.intercept))

\* getBatchSizeFromUsage: (usageMb - intercept) / slope
getBatchSizeFromUsage(usageModelMb, usageMb) ==
    JSDiv(JSSub(usageMb, Int2Num(usageModelMb.intercept)),
          Int2Num(usageModelMb.slope))

\* getBatchSizeFromThroughput:
\* intercept * throughput / (1000 - slope * throughput)
getBatchSizeFromThroughput(runtimeModelMs, throughput) ==
    JSDiv(JSMul(Int2Num(runtimeModelMs.intercept), throughput),
          JSSub(Int2Num(1000), JSMul(Int2Num(runtimeModelMs.slope), throughput)))

(***************************************************************************)
(* The projections the getters build.                                      *)
(***************************************************************************)
\* Throughput.fromInfo: the measured throughput model as received
ThroughputFromInfo(info) ==
    [from |-> "info", info |-> info, batchSize |-> Null, value |-> Null]

\* Throughput.fromPrediction: the throughput (samples per second) the
\* runtime model gives at the batch size
ThroughputFromPrediction(info, batchSize) ==
    [from |-> "prediction", info |-> info, batchSize |-> batchSize,
     value |-> JSMul(JSDiv(batchSize, evaluateLinearModel(info.runtimeModelMs, batchSize)),
                     Int2Num(1000))]

\* Memory.fromInfo: the measured memory model as received
MemoryFromInfo(info) ==
    [from |-> "info", info |-> info, batchSize |-> Null, value |-> Null]

\* Memory.fromPrediction: the usage the memory model gives at the batch size
MemoryFromPrediction(info, batchSize) ==
    [from |-> "prediction", info |-> info, batchSize |-> batchSize,
     value |-> evaluateLinearModel(info.usageModelMb, batchSize)]

\* getThroughputModel that never looks at the prediction
getThroughputModel_IgnoresPrediction(w) ==
    IF w.throughputInfo = Null THEN Null
    ELSE ThroughputFromInfo(w.throughputInfo)

\* what getThroughputModel returns in state w
getThroughputModel(w) ==
    IF w.throughputInfo = Null THEN Null
    ELSE IF w.predictedBatchSize = Null THEN ThroughputFromInfo(w.throughputInfo)
    ELSE ThroughputFromPrediction(w.throughputInfo, w.predictedBatchSize)

\* what getMemoryModel returns in state w
getMemoryModel(w) ==
    IF w.memoryInfo = Null THEN Null
    ELSE IF w.predictedBatchSize = Null THEN MemoryFromInfo(w.memoryInfo)
    ELSE MemoryFromPrediction(w.memoryInfo, w.predictedBatchSize)

(***************************************************************************)
(* The observer plumbing of the store's base class.                        *)
(***************************************************************************)
\* what a listener finds when it re-reads the store and the annotation
Snapshot(w) ==
    [throughputInfo |-> w.throughputInfo, memoryInfo |-> w.memoryInfo,
     inputInfo |-> w.inputInfo, predictedBatchSize |-> w.predictedBatchSize,
     maxBatchSize |-> w.maxBatchSize,
     throughputModel |-> getThroughputModel(w), memoryModel |-> getMemoryModel(w),
     annotation |-> IF w.currentAnnotationRange = Null THEN Null
                    ELSE [text |-> getTextInRange(w.buffer, w.currentAnnotationRange)],
     to |-> w.listeners]

\* addListener: emitter.on appends the callback (registering twice is kept)
addListener(w, callback) == [w EXCEPT !.listeners = Append(@, callback)]

\* removeListener: emitter.removeListener drops the most recently added
\* registration of the callback, if there is one
removeListener(w, callback) ==
    LET hits == { i \in 1..Len(w.listeners) : w.listeners[i] = callback }
        last == CHOOSE i \in hits : \A j \in hits : j <= i
    IN  IF hits = {} THEN w
        ELSE [w EXCEPT !.listeners =
                 SubSeq(@, 1, last - 1) \o SubSeq(@, last + 1, Len(@))]

\* notifyChanged: emits the update event; every registered callback runs
\* now, synchronously, and sees the state as it is at this point
notifyChanged(w) ==
    [w EXCEPT !.opTrace = Append(@, [Event(w, "emit") EXCEPT !.seen = Snapshot(w)])]

(***************************************************************************)
(* BatchSizeStore.                                                         *)
(***************************************************************************)
\* _getAnnotationString: a copy of the input size whose first entry is the
\* rounded prediction when there is one
getAnnotationString(w) ==
    LET inputSizeTuple == w.inputInfo.inputSize
        inputSizeCopy == [k \in 1..Len(inputSizeTuple) |-> Int2Num(inputSizeTuple[k])]
        updatedCopy ==
            IF w.predictedBatchSize # Null
            THEN [inputSizeCopy EXCEPT ![1] = MathRound(w.predictedBatchSize)]
            ELSE inputSizeCopy
    IN  AnnotationText(updatedCopy)

\* _updateAnnotationInBuffer over an alias of the input size instead of a
\* copy: the rounded prediction is written into the stored tuple
updateAnnotationInBuffer_AliasesInputSize(w) ==
    IF w.inputInfo = Null THEN Throw(w)
    ELSE
        LET updatedAnnotation == getAnnotationString(w)
            w0 == IF w.predictedBatchSize # Null
                  THEN [w EXCEPT !.inputInfo.inputSize[1] =
                                     MathRound(w.predictedBatchSize).n]
                  ELSE w
            w1 == ignoreEditorChanges(w0)
            w2 == [setTextInRange(w1, w1.currentAnnotationRange, updatedAnnotation)
                      EXCEPT !.currentAnnotationRange =
                          NewRange(w1.buffer, w1.currentAnnotationRange, updatedAnnotation)]
            w3 == groupChangesSinceCheckpoint(w2, w2.currentUndoCheckpoint)
        IN  subscribeToEditorChanges(w3)

\* _updateAnnotationInBuffer that replaces the text before it suspends the
\* editor change notifications
updateAnnotationInBuffer_RewritesBeforeIgnoring(w) ==
    IF w.inputInfo = Null THEN Throw(w)
    ELSE
        LET updatedAnnotation == getAnnotationString(w)
            w1 == [setTextInRange(w, w.currentAnnotationRange, updatedAnnotation)
                      EXCEPT !.currentAnnotationRange =
                          NewRange(w.buffer, w.currentAnnotationRange, updatedAnnotation)]
            w2 == ignoreEditorChanges(w1)
            w3 == groupChangesSinceCheckpoint(w2, w2.currentUndoCheckpoint)
        IN  subscribeToEditorChanges(w3)

\* _updateAnnotationInBuffer without the grouping of the change
updateAnnotationInBuffer_NoGrouping(w) ==
    IF w.inputInfo = Null THEN Throw(w)
    ELSE
        LET updatedAnnotation == getAnnotationString(w)
            w1 == ignoreEditorChanges(w)
            w2 == [setTextInRange(w1, w1.currentAnnotationRange, updatedAnnotation)
                      EXCEPT !.currentAnnotationRange =
                          NewRange(w1.buffer, w1.currentAnnotationRange, updatedAnnotation)]
        IN  subscribeToEditorChanges(w2)

\* _updateAnnotationInBuffer that drops the range setTextInRange returns
updateAnnotationInBuffer_KeepsOldRange(w) ==
    IF w.inputInfo = Null THEN Throw(w)
    ELSE
        LET updatedAnnotation == getAnnotationString(w)
            w1 == ignoreEditorChanges(w)
            w2 == setTextInRange(w1, w1.currentAnnotationRange, updatedAnnotation)
            w3 == groupChangesSinceCheckpoint(w2, w2.currentUndoCheckpoint)
        IN  subscribeToEditorChanges(w3)

\* _updateAnnotationInBuffer that suspends the editor change notifications
\* before it builds the annotation string
updateAnnotationInBuffer_IgnoresBeforeBuilding(w) ==
    LET w1 == ignoreEditorChanges(w)
    IN  IF w1.inputInfo = Null THEN Throw(w1)
        ELSE
            LET updatedAnnotation == getAnnotationString(w1)
                w2 == [setTextInRange(w1, w1.currentAnnotationRange, updatedAnnotation)
                          EXCEPT !.currentAnnotationRange =
                              NewRange(w1.buffer, w1.currentAnnotationRange,
                                       updatedAnnotation)]
                w3 == groupChangesSinceCheckpoint(w2, w2.currentUndoCheckpoint)
            IN  subscribeToEditorChanges(w3)

\* _updateAnnotationInBuffer
updateAnnotationInBuffer(w) ==
    IF w.inputInfo = Null THEN Throw(w)
    ELSE
        LET updatedAnnotation == getAnnotationString(w)
            w1 == ignoreEditorChanges(w)
            w2 == [setTextInRange(w1, w1.currentAnnotationRange, updatedAnnotation)
                      EXCEPT !.currentAnnotationRange =
                          NewRange(w1.buffer, w1.currentAnnotationRange, updatedAnnotation)]
            w3 == groupChangesSinceCheckpoint(w2, w2.currentUndoCheckpoint)
        IN  subscribeToEditorChanges(w3)

\* receivedAnalysis that computes maxBatchSize only when none is stored yet
receivedAnalysis_KeepsMaxBatchSize(w, tInfo, mInfo, iInfo) ==
    LET w1 == [w EXCEPT !.throughputInfo = tInfo,
                        !.memoryInfo = mInfo,
                        !.inputInfo = iInfo]
        w2 == [w1 EXCEPT !.predictedBatchSize = Null,
                         !.maxBatchSize =
                             IF w.maxBatchSize # Null THEN w.maxBatchSize
                             ELSE getBatchSizeFromUsage(w1.memoryInfo.usageModelMb,
                                      Int2Num(w1.memoryInfo.maxCapacityMb))]
        startPoint == w2.inputInfo.annotationStart
        endPoint == w2.inputInfo.annotationEnd
        w3 == [w2 EXCEPT !.currentAnnotationRange =
                             Range(startPoint.line, startPoint.column,
                                   endPoint.line, endPoint.column)]
        w4 == [createCheckpoint(w3) EXCEPT
                  !.currentUndoCheckpoint = [id |-> w3.nextCheckpointId]]
    IN  notifyChanged(w4)

\* receivedAnalysis that inverts the runtime model instead of the memory
\* usage model
receivedAnalysis_UsesRuntimeModel(w, tInfo, mInfo, iInfo) ==
    LET w1 == [w EXCEPT !.throughputInfo = tInfo,
                        !.memoryInfo = mInfo,
                        !.inputInfo = iInfo]
        w2 == [w1 EXCEPT !.predictedBatchSize = Null,
                         !.maxBatchSize =
                             getBatchSizeFromUsage(w1.throughputInfo.runtimeModelMs,
                                                   Int2Num(w1.memoryInfo.maxCapacityMb))]
        startPoint == w2.inputInfo.annotationStart
        endPoint == w2.inputInfo.annotationEnd
        w3 == [w2 EXCEPT !.currentAnnotationRange =
                             Range(startPoint.line, startPoint.column,
                                   endPoint.line, endPoint.column)]
        w4 == [createCheckpoint(w3) EXCEPT
                  !.currentUndoCheckpoint = [id |-> w3.nextCheckpointId]]
    IN  notifyChanged(w4)

\* receivedAnalysis(throughputInfo, memoryInfo, inputInfo)
receivedAnalysis(w, tInfo, mInfo, iInfo) ==
    LET w1 == [w EXCEPT !.throughputInfo = tInfo,
                        !.memoryInfo = mInfo,
                        !.inputInfo = iInfo]
        w2 == [w1 EXCEPT !.predictedBatchSize = Null,
                         !.maxBatchSize =
                             getBatchSizeFromUsage(w1.memoryInfo.usageModelMb,
                                                   Int2Num(w1.memoryInfo.maxCapacityMb))]
        startPoint == w2.inputInfo.annotationStart
        endPoint == w2.inputInfo.annotationEnd
        w3 == [w2 EXCEPT !.currentAnnotationRange =
                             Range(startPoint.line, startPoint.column,
                                   endPoint.line, endPoint.column)]
        w4 == [createCheckpoint(w3) EXCEPT
                  !.currentUndoCheckpoint = [id |-> w3.nextCheckpointId]]
    IN  notifyChanged(w4)

\* updateMemoryUsage that takes the change alone as the percentage
updateMemoryUsage_IgnoresBasePct(w, deltaPct, basePct) ==
    IF w.memoryInfo = Null THEN Throw(w)
    ELSE
        LET updatedPct == Int2Num(deltaPct)
            maxCapacityMb == Int2Num(w.memoryInfo.maxCapacityMb)
            updatedUsage ==
                MathMin(JSMul(JSDiv(updatedPct, Int2Num(100)), maxCapacityMb),
                        maxCapacityMb)
            w1 == [w EXCEPT !.predictedBatchSize =
                      MathMax(getBatchSizeFromUsage(w.memoryInfo.usageModelMb, updatedUsage),
                              Int2Num(1))]
            w2 == updateAnnotationInBuffer(w1)
        IN  IF w2.lastCall.threw THEN w2 ELSE notifyChanged(w2)

\* updateMemoryUsage whose lower clamp is the prediction already stored
\* (1 when there is none)
updateMemoryUsage_KeepsLargerPrediction(w, deltaPct, basePct) ==
    IF w.memoryInfo = Null THEN Throw(w)
    ELSE
        LET updatedPct == JSAdd(Int2Num(basePct), Int2Num(deltaPct))
            maxCapacityMb == Int2Num(w.memoryInfo.maxCapacityMb)
            updatedUsage ==
                MathMin(JSMul(JSDiv(updatedPct, Int2Num(100)), maxCapacityMb),
                        maxCapacityMb)
            w1 == [w EXCEPT !.predictedBatchSize =
                      MathMax(getBatchSizeFromUsage(w.memoryInfo.usageModelMb, updatedUsage),
                              IF w.predictedBatchSize # Null THEN w.predictedBatchSize
                              ELSE Int2Num(1))]
            w2 == updateAnnotationInBuffer(w1)
        IN  IF w2.lastCall.threw THEN w2 ELSE notifyChanged(w2)

\* updateMemoryUsage that notifies before it rewrites the annotation
updateMemoryUsage_NotifiesBeforeRewrite(w, deltaPct, basePct) ==
    IF w.memoryInfo = Null THEN Throw(w)
    ELSE
        LET updatedPct == JSAdd(Int2Num(basePct), Int2Num(deltaPct))
            maxCapacityMb == Int2Num(w.memoryInfo.maxCapacityMb)
            updatedUsage ==
                MathMin(JSMul(JSDiv(updatedPct, Int2Num(100)), maxCapacityMb),
                        maxCapacityMb)
            w1 == [w EXCEPT !.predictedBatchSize =
                      MathMax(getBatchSizeFromUsage(w.memoryInfo.usageModelMb, updatedUsage),
                              Int2Num(1))]
        IN  updateAnnotationInBuffer(notifyChanged(w1))

\* updateMemoryUsage without the upper clamp of the usage (Math.min dropped)
updateMemoryUsage_NoUsageClamp(w, deltaPct, basePct) ==
    IF w.memoryInfo = Null THEN Throw(w)
    ELSE
        LET updatedPct == JSAdd(Int2Num(basePct), Int2Num(deltaPct))
            maxCapacityMb == Int2Num(w.memoryInfo.maxCapacityMb)
            updatedUsage == JSMul(JSDiv(updatedPct, Int2Num(100)), maxCapacityMb)
            w1 == [w EXCEPT !.predictedBatchSize =
                      MathMax(getBatchSizeFromUsage(w.memoryInfo.usageModelMb, updatedUsage),
                              Int2Num(1))]
            w2 == updateAnnotationInBuffer(w1)
        IN  IF w2.lastCall.threw THEN w2 ELSE notifyChanged(w2)

\* updateMemoryUsage(deltaPct, basePct)
updateMemoryUsage(w, deltaPct, basePct) ==
    IF w.memoryInfo = Null THEN Throw(w)
    ELSE
        LET updatedPct == JSAdd(Int2Num(basePct), Int2Num(deltaPct))
            maxCapacityMb == Int2Num(w.memoryInfo.maxCapacityMb)
            updatedUsage ==
                MathMin(JSMul(JSDiv(updatedPct, Int2Num(100)), maxCapacityMb),
                        maxCapacityMb)
            w1 == [w EXCEPT !.predictedBatchSize =
                      MathMax(getBatchSizeFromUsage(w.memoryInfo.usageModelMb, updatedUsage),
                              Int2Num(1))]
            w2 == updateAnnotationInBuffer(w1)
        IN  IF w2.lastCall.threw THEN w2 ELSE notifyChanged(w2)

\* the target throughput taken as a percentage of the throughput limit
\* instead of the maximum throughput
UpdatedThroughput_ScalesLimit(tInfo, deltaPct, basePct) ==
    LET updatedPct == JSAdd(Int2Num(basePct), Int2Num(deltaPct))
    IN  MathMax(MathMin(JSMul(JSDiv(updatedPct, Int2Num(100)),
                              Int2Num(tInfo.throughputLimit)),
                        Int2Num(tInfo.throughputLimit)),
                Int2Num(0))

\* the target throughput of updateThroughput: the percentage of the maximum
\* throughput, clamped into [0, throughputLimit]
UpdatedThroughput(tInfo, deltaPct, basePct) ==
    LET updatedPct == JSAdd(Int2Num(basePct), Int2Num(deltaPct))
    IN  MathMax(MathMin(JSMul(JSDiv(updatedPct, Int2Num(100)),
                              Int2Num(tInfo.maxThroughput)),
                        Int2Num(tInfo.throughputLimit)),
                Int2Num(0))

\* updateThroughput without the lower clamp of the batch size (Math.max dropped)
updateThroughput_NoLowerClamp(w, deltaPct, basePct) ==
    IF w.throughputInfo = Null THEN Throw(w)
    ELSE
        LET updatedThroughput == UpdatedThroughput(w.throughputInfo, deltaPct, basePct)
            throughputBatchSize ==
                getBatchSizeFromThroughput(w.throughputInfo.runtimeModelMs,
                                           updatedThroughput)
            w1 == IF JSLt(throughputBatchSize, Int2Num(0))
                  THEN [Record(w, "overflow") EXCEPT
                           !.predictedBatchSize = w.maxBatchSize]
                  ELSE [Record(w, "clamp") EXCEPT
                           !.predictedBatchSize =
                               MathMin(throughputBatchSize, w.maxBatchSize)]
            w2 == updateAnnotationInBuffer(w1)
        IN  IF w2.lastCall.threw THEN w2 ELSE notifyChanged(w2)

\* updateThroughput without the test for a negative inversion result: the
\* result is clamped whatever its sign
updateThroughput_NoOverflowCheck(w, deltaPct, basePct) ==
    IF w.throughputInfo = Null THEN Throw(w)
    ELSE
        LET updatedThroughput == UpdatedThroughput(w.throughputInfo, deltaPct, basePct)
            throughputBatchSize ==
                getBatchSizeFromThroughput(w.throughputInfo.runtimeModelMs,
                                           updatedThroughput)
            w1 == [Record(w, "clamp") EXCEPT
                      !.predictedBatchSize =
                          MathMax(MathMin(throughputBatchSize, w.maxBatchSize),
                                  Int2Num(1))]
            w2 == updateAnnotationInBuffer(w1)
        IN  IF w2.lastCall.threw THEN w2 ELSE notifyChanged(w2)

\* updateThroughput(deltaPct, basePct)
updateThroughput(w, deltaPct, basePct) ==
    IF w.throughputInfo = Null THEN Throw(w)
    ELSE
        LET updatedThroughput == UpdatedThroughput(w.throughputInfo, deltaPct, basePct)
            throughputBatchSize ==
                getBatchSizeFromThroughput(w.throughputInfo.runtimeModelMs,
                                           updatedThroughput)
            w1 == IF JSLt(throughputBatchSize, Int2Num(0))
                  THEN [Record(w, "overflow") EXCEPT
                           !.predictedBatchSize = w.maxBatchSize]
                  ELSE [Record(w, "clamp") EXCEPT
                           !.predictedBatchSize =
                               MathMax(MathMin(throughputBatchSize, w.maxBatchSize),
                                       Int2Num(1))]
            w2 == updateAnnotationInBuffer(w1)
        IN  IF w2.lastCall.threw THEN w2 ELSE notifyChanged(w2)

\* clearPredictions that also drops the stored models
clearPredictions_DiscardsModels(w) ==
    LET w1 == [w EXCEPT !.predictedBatchSize = Null]
        w2 == updateAnnotationInBuffer(w1)
    IN  IF w2.lastCall.threw THEN w2
        ELSE notifyChanged([w2 EXCEPT !.throughputInfo = Null,
                                      !.memoryInfo = Null,
                                      !.maxBatchSize = Null])

\* clearPredictions that rewrites the annotation before it resets the
\* prediction
clearPredictions_RewritesBeforeReset(w) ==
    LET w1 == updateAnnotationInBuffer(w)
    IN  IF w1.lastCall.threw THEN w1
        ELSE notifyChanged([w1 EXCEPT !.predictedBatchSize = Null])

\* clearPredictions()
clearPredictions(w) ==
    LET w1 == [w EXCEPT !.predictedBatchSize = Null]
        w2 == updateAnnotationInBuffer(w1)
    IN  IF w2.lastCall.threw THEN w2 ELSE notifyChanged(w2)

\* a call of getThroughputModel that rounds the stored prediction in place
callGetThroughputModel_RoundsPrediction(w) ==
    [w EXCEPT !.returned = getThroughputModel(w),
              !.predictedBatchSize = IF @ = Null THEN @ ELSE MathRound(@)]

\* a call of getThroughputModel: only the returned value is new
callGetThroughputModel(w) == [w EXCEPT !.returned = getThroughputModel(w)]

\* a call of getMemoryModel
callGetMemoryModel(w) == [w EXCEPT !.returned = getMemoryModel(w)]

\* getInputInfo
getInputInfo(w) == [w EXCEPT !.returned = w.inputInfo]

(***************************************************************************)
(* The environment: the file in the editor and the analysis of it.  An     *)
(* analysis describes the file as it is when the analysis is made: its     *)
(* input info gives the place of the annotation in the buffer and the      *)
(* input size written there.                                               *)
(***************************************************************************)
\* the file: a line of code, the annotation in a comment, a line of code
InitialBuffer(size) ==
    << <<"x", " ", "=", " ", "1">>,
       <<"#", " ">> \o AnnotationText([k \in 1..Len(size) |-> Int2Num(size[k])])
           \o <<" ", "!">>,
       <<"y">> >>

\* the first index at which pat occurs in line, 0 when it does not
FindAt(line, pat) ==
    LET hits == { i \in 1..(Len(line) - Len(pat) + 1) :
                    SubSeq(line, i, i + Len(pat) - 1) = pat }
    IN  IF hits = {} THEN 0 ELSE CHOOSE i \in hits : \A j \in hits : i <= j

DigitValue(c) == CHOOSE k \in 0..9 : Digits[k + 1] = c

\* the integers of a comma-separated list
RECURSIVE ParseInts(_, _, _, _)
ParseInts(cs, cur, sign, acc) ==
    IF Len(cs) = 0 THEN Append(acc, sign * cur)
    ELSE LET c == Head(cs)
         IN  IF c = "," THEN ParseInts(Tail(cs), 0, 1, Append(acc, sign * cur))
             ELSE IF c = " " THEN ParseInts(Tail(cs), cur, sign, acc)
             ELSE IF c = "-" THEN ParseInts(Tail(cs), cur, -1, acc)
             ELSE ParseInts(Tail(cs), 10 * cur + DigitValue(c), sign, acc)

\* the InputInfo an analysis of the buffer reports
AnalyzeBuffer(buf) ==
    LET row == CHOOSE r \in 1..Len(buf) :
                   /\ FindAt(buf[r], AnnotationPrefix) # 0
                   /\ \A q \in 1..(r - 1) : FindAt(buf[q], AnnotationPrefix) = 0
        line == buf[row]
        first == FindAt(line, AnnotationPrefix)
        open == first + Len(AnnotationPrefix) - 1
        close == CHOOSE j \in (open + 1)..Len(line) :
                     /\ line[j] = ")"
                     /\ \A q \in (open + 1)..(j - 1) : line[q] # ")"
    IN  [annotationStart |-> [line |-> row - 1, column |-> first - 1],
         annotationEnd |-> [line |-> row - 1, column |-> close],
         inputSize |-> ParseInts(SubSeq(line, open + 1, close - 1), 0, 1, <<>>)]

(***************************************************************************)
(* The state machine.                                                      *)
(***************************************************************************)
Init ==
    /\ throughputInfo = Null
    /\ memoryInfo = Null
    /\ inputInfo = Null
    /\ predictedBatchSize = Null
    /\ maxBatchSize = Null
    /\ currentAnnotationRange = Null
    /\ currentUndoCheckpoint = Null
    /\ listeners = <<>>
    /\ buffer \in { InitialBuffer(size) : size \in InputSizes }
    /\ undoStack = <<>>
    /\ nextCheckpointId = 1
    /\ editorSubscribed = TRUE
    /\ lastCall = [op |-> "constructor", args |-> <<>>, analysis |-> Null,
                   threw |-> FALSE]
    /\ opTrace = <<>>
    /\ returned = Null

ReceivedAnalysis ==
    /\ nextCheckpointId <= MaxAnalyses
    /\ \E tInfo \in ThroughputInfos, mInfo \in MemoryInfos :
          LET iInfo == AnalyzeBuffer(buffer)
              w == [BeginCall(World, "receivedAnalysis", <<>>) EXCEPT
                       !.lastCall.analysis = [throughputInfo |-> tInfo,
                                              memoryInfo |-> mInfo,
                                              inputInfo |-> iInfo]]
          IN  SetWorld(receivedAnalysis(w, tInfo, mInfo, iInfo))

UpdateMemoryUsage ==
    \E deltaPct \in DeltaPcts, basePct \in BasePcts :
        SetWorld(updateMemoryUsage(
                     BeginCall(World, "updateMemoryUsage", <<deltaPct, basePct>>),
                     deltaPct, basePct))

UpdateThroughput ==
    \E deltaPct \in DeltaPcts, basePct \in BasePcts :
        SetWorld(updateThroughput(
                     BeginCall(World, "updateThroughput", <<deltaPct, basePct>>),
                     deltaPct, basePct))

ClearPredictions ==
    SetWorld(clearPredictions(BeginCall(World, "clearPredictions", <<>>)))

GetThroughputModel ==
    SetWorld(callGetThroughputModel(BeginCall(World, "getThroughputModel", <<>>)))

GetMemoryModel ==
    SetWorld(callGetMemoryModel(BeginCall(World, "getMemoryModel", <<>>)))

GetInputInfo ==
    SetWorld(getInputInfo(BeginCall(World, "getInputInfo", <<>>)))

AddListener ==
    /\ Len(listeners) < MaxListeners
    /\ \E callback \in ListenerIds :
          SetWorld(addListener(BeginCall(World, "addListener", <<>>), callback))

RemoveListener ==
    \E callback \in ListenerIds :
        SetWorld(removeListener(BeginCall(World, "removeListener", <<>>), callback))

Next ==
    \/ ReceivedAnalysis
    \/ UpdateMemoryUsage
    \/ UpdateThroughput
    \/ ClearPredictions
    \/ GetThroughputModel
    \/ GetMemoryModel
    \/ GetInputInfo
    \/ AddListener
    \/ RemoveListener

Spec == Init /\ [][Next]_vars

(***************************************************************************)
(* Round trip of the memory-model inversion: the store receives an         *)
(* analysis whose capacity is the usage slope * b + intercept of an        *)
(* integer batch size b, so that the batch size at capacity must be b.     *)
(***************************************************************************)
\* slopes 1..MaxSlope and batch sizes 1..MaxBatch are tried
MaxSlope == 4

MaxBatch == 5

RoundTripIntercepts == {-2, 0, 1, 200}

RoundTripAnalysis ==
    /\ nextCheckpointId = 1
    /\ \E slope \in 1..MaxSlope, intercept \in RoundTripIntercepts,
          b \in 1..MaxBatch, tInfo \in ThroughputInfos :
          LET model == [slope |-> slope, intercept |-> intercept]
              usage == evaluateLinearModel(model, Int2Num(b))
              mInfo == [usageModelMb |-> model, maxCapacityMb |-> usage.n]
              iInfo == AnalyzeBuffer(buffer)
              w == [BeginCall(World, "receivedAnalysis", <<slope, intercept, b>>)
                       EXCEPT !.lastCall.analysis = [throughputInfo |-> tInfo,
                                                     memoryInfo |-> mInfo,
                                                     inputInfo |-> iInfo]]
          IN  /\ usage.n > 0
              /\ SetWorld([receivedAnalysis(w, tInfo, mInfo, iInfo) EXCEPT
                              !.returned = getBatchSizeFromUsage(model, usage)])

SpecRoundTrip == Init /\ [][RoundTripAnalysis]_vars

(***************************************************************************)
(* Properties.                                                             *)
(***************************************************************************)
\* the last call was op and it returned (it did not throw)
Completed(op) == lastCall.op = op /\ ~lastCall.threw

One == Int2Num(1)

\* x lies in [1, maxBatchSize]
InBatchRange(x) == JSLe(One, x) /\ JSLe(x, maxBatchSize)

\* the sum basePct + deltaPct of the last adjustment
LastPct == lastCall.args[1] + lastCall.args[2]

\* C1 as stated: in every reachable state a non-null predictedBatchSize
\* lies in [1, maxBatchSize] (in particular after any updateMemoryUsage).
\* Fails when the memory model leaves no room for batch size 1
\* (maxBatchSize < 1): the lower clamp then stores 1 > maxBatchSize.
C1_PredictionInRange ==
    predictedBatchSize # Null => InBatchRange(predictedBatchSize)

\* C1 amended: whenever maxBatchSize >= 1, a non-null predictedBatchSize
\* lies in [1, maxBatchSize] in every reachable state; after any
\* updateMemoryUsage the prediction is at least 1, and it is exactly 1 when
\* maxBatchSize < 1.
C1_PredictionInRangeWhenFeasible ==
    /\ (predictedBatchSize # Null /\ JSLe(One, maxBatchSize))
          => InBatchRange(predictedBatchSize)
    /\ Completed("updateMemoryUsage")
          => /\ JSLe(One, predictedBatchSize)
             /\ JSLt(maxBatchSize, One) => predictedBatchSize = One

\* C1 witness: updateMemoryUsage with a percentage far above 100 stored a
\* prediction equal to a feasible maxBatchSize
C1_Witness ==
    /\ Completed("updateMemoryUsage")
    /\ LastPct > 1000
    /\ JSLe(One, maxBatchSize)
    /\ predictedBatchSize = maxBatchSize

\* C2 as stated: after any updateThroughput the stored predictedBatchSize
\* lies in [1, maxBatchSize].  Fails when maxBatchSize < 1.
C2_ThroughputInRange ==
    Completed("updateThroughput") => InBatchRange(predictedBatchSize)

\* C2 amended: after any updateThroughput, predictedBatchSize lies in
\* [1, maxBatchSize] whenever maxBatchSize >= 1; when maxBatchSize < 1 it
\* is maxBatchSize (overflow branch) or 1 (clamping branch).
C2_ThroughputInRangeWhenFeasible ==
    Completed("updateThroughput")
        => /\ JSLe(One, maxBatchSize) => InBatchRange(predictedBatchSize)
           /\ JSLt(maxBatchSize, One)
                 => \/ opTrace[1].call = "overflow" /\ predictedBatchSize = maxBatchSize
                    \/ opTrace[1].call = "clamp" /\ predictedBatchSize = One

\* C2 witness: the overflow branch was taken under a feasible maxBatchSize
C2_Witness ==
    /\ Completed("updateThroughput")
    /\ opTrace[1].call = "overflow"
    /\ JSLe(One, maxBatchSize)
    /\ predictedBatchSize = maxBatchSize

\* slope * targetThroughput of the last updateThroughput
LastSlopeTimesTarget ==
    JSMul(Int2Num(throughputInfo.runtimeModelMs.slope),
          UpdatedThroughput(throughputInfo, lastCall.args[1], lastCall.args[2]))

Thousand == Int2Num(1000)

\* C3 as stated: whenever slope * targetThroughput >= 1000 (equality
\* included) the overflow path is taken and predictedBatchSize becomes
\* exactly maxBatchSize.  Fails at equality: the inversion is +Infinity,
\* which is not negative, so the clamping branch runs.
C3_AsymptoteTakesOverflowPath ==
    (Completed("updateThroughput") /\ JSLe(Thousand, LastSlopeTimesTarget))
        => /\ opTrace[1].call = "overflow"
           /\ predictedBatchSize = maxBatchSize

\* C3 amended: when slope * targetThroughput > 1000 the overflow path is
\* taken and predictedBatchSize becomes exactly maxBatchSize; when
\* slope * targetThroughput = 1000 the clamping branch is taken and
\* predictedBatchSize becomes max(maxBatchSize, 1), which is maxBatchSize
\* whenever maxBatchSize >= 1.
C3_AsymptoteYieldsCeiling ==
    Completed("updateThroughput")
        => /\ JSLt(Thousand, LastSlopeTimesTarget)
                 => /\ opTrace[1].call = "overflow"
                    /\ predictedBatchSize = maxBatchSize
           /\ LastSlopeTimesTarget = Thousand
                 => /\ opTrace[1].call = "clamp"
                    /\ predictedBatchSize = MathMax(maxBatchSize, One)
                    /\ JSLe(One, maxBatchSize) => predictedBatchSize = maxBatchSize

\* C3 witness: the target throughput was exactly the asymptote and the
\* prediction became a feasible maxBatchSize
C3_Witness ==
    /\ Completed("updateThroughput")
    /\ LastSlopeTimesTarget = Thousand
    /\ JSLe(One, maxBatchSize)
    /\ predictedBatchSize = maxBatchSize

\* the memory usage slope * b + intercept of the stored model at batch size b
UsageAt(b) ==
    Num(memoryInfo.usageModelMb.slope * b.n + memoryInfo.usageModelMb.intercept * b.d,
        b.d)

\* C4: receivedAnalysis sets maxBatchSize to the largest integer batch
\* size whose usage slope * b + intercept is within maxCapacityMb: it is an
\* integer, usage at maxBatchSize is within capacity and usage at
\* maxBatchSize + 1 exceeds it.  The code stores the quotient unfloored.
C4_MaxBatchSizeIsLargestInteger ==
    Completed("receivedAnalysis")
        => /\ maxBatchSize.d = 1
           /\ JSLe(UsageAt(maxBatchSize), Int2Num(memoryInfo.maxCapacityMb))
           /\ JSLt(Int2Num(memoryInfo.maxCapacityMb),
                   UsageAt(JSAdd(maxBatchSize, One)))

\* the batch size at which the stored memory model reaches the capacity
CapacityBatchSize ==
    Num(memoryInfo.maxCapacityMb - memoryInfo.usageModelMb.intercept,
        memoryInfo.usageModelMb.slope)

\* C5: receivedAnalysis never throws, stores the three models it is given,
\* resets predictedBatchSize to null and recomputes maxBatchSize; in every
\* reachable state maxBatchSize is the value derived from the stored
\* memoryInfo, and it is null exactly when no analysis is stored.
C5_AnalysisResets ==
    /\ lastCall.op = "receivedAnalysis"
          => /\ ~lastCall.threw
             /\ throughputInfo = lastCall.analysis.throughputInfo
             /\ memoryInfo = lastCall.analysis.memoryInfo
             /\ inputInfo = lastCall.analysis.inputInfo
             /\ predictedBatchSize = Null
    /\ memoryInfo = Null => maxBatchSize = Null
    /\ memoryInfo # Null => maxBatchSize = CapacityBatchSize

\* C5 witness: a second analysis arrived while a prediction was written in
\* the annotation, with a memory model other than one giving the old
\* ceiling, and the prediction is gone
C5_Witness ==
    /\ Completed("receivedAnalysis")
    /\ currentUndoCheckpoint = [id |-> 2]
    /\ ChangesSince(undoStack, 1) = 1
    /\ inputInfo.inputSize[1] = 156
    /\ maxBatchSize # Int2Num(156)
    /\ predictedBatchSize = Null

\* C6: updateMemoryUsage, updateThroughput and clearPredictions leave
\* throughputInfo, memoryInfo, inputInfo and maxBatchSize unchanged.
C6_AdjustmentsKeepModels ==
    [][lastCall'.op \in {"updateMemoryUsage", "updateThroughput", "clearPredictions"}
          => UNCHANGED <<throughputInfo, memoryInfo, inputInfo, maxBatchSize>>]_vars

\* C6 witness: clearPredictions ran after a rewrite under the current
\* analysis and the models are still stored
C6_Witness ==
    /\ Completed("clearPredictions")
    /\ predictedBatchSize = Null
    /\ throughputInfo # Null /\ memoryInfo # Null /\ inputInfo # Null
    /\ maxBatchSize # Null
    /\ ChangesSince(undoStack, currentUndoCheckpoint.id) = 1

\* C7: clearPredictions after an analysis sets predictedBatchSize to null
\* and leaves the file with the annotation of the exact input size of the
\* current analysis (every dimension, in order); the tracked range holds
\* exactly that annotation.
C7_ClearRestoresAnnotation ==
    Completed("clearPredictions")
        => /\ predictedBatchSize = Null
           /\ buffer = InitialBuffer(inputInfo.inputSize)
           /\ getTextInRange(buffer, currentAnnotationRange)
                  = AnnotationText([k \in 1..Len(inputInfo.inputSize) |->
                                        Int2Num(inputInfo.inputSize[k])])

\* C7 witness: clearPredictions ran under a second analysis, made of a file
\* whose annotation a prediction had rewritten, after a rewrite under it
C7_Witness ==
    /\ Completed("clearPredictions")
    /\ currentUndoCheckpoint = [id |-> 2]
    /\ ChangesSince(undoStack, 2) = 1
    /\ inputInfo.inputSize = <<156, 3, 224>>
    /\ predictedBatchSize = Null

MutatingOps ==
    {"receivedAnalysis", "updateMemoryUsage", "updateThroughput", "clearPredictions"}

\* the positions of the last call's trace at which the update event was emitted
EmitPositions == { i \in 1..Len(opTrace) : opTrace[i].call = "emit" }

\* C8: every mutating operation that returns emits the update event
\* exactly once, as the last thing it does, and what a listener reads
\* during the notification is the state the operation ends in.
C8_NotifiesOnceAtEnd ==
    (lastCall.op \in MutatingOps /\ ~lastCall.threw)
        => /\ EmitPositions = {Len(opTrace)}
           /\ opTrace[Len(opTrace)].seen = Snapshot(World)

\* C8 witness: an adjustment rewrote the annotation and then notified a
\* registered listener
C8_Witness ==
    /\ Completed("updateMemoryUsage")
    /\ listeners = <<"f">>
    /\ Len(opTrace) = 5
    /\ opTrace[2].call = "setTextInRange"
    /\ opTrace[5].call = "emit"
    /\ opTrace[5].seen.to = <<"f">>
    /\ opTrace[5].seen.predictedBatchSize = predictedBatchSize

\* C9: getThroughputModel and getMemoryModel return without changing any
\* store field, the annotation range, the undo checkpoint, the buffer, its
\* undo history or the listeners, touch no collaborator and emit nothing.
C9_GettersArePure ==
    [][lastCall'.op \in {"getThroughputModel", "getMemoryModel"}
          => /\ UNCHANGED <<throughputInfo, memoryInfo, inputInfo, predictedBatchSize,
                            maxBatchSize, currentAnnotationRange, currentUndoCheckpoint,
                            listeners, buffer, undoStack, nextCheckpointId,
                            editorSubscribed>>
             /\ opTrace' = <<>>
             /\ ~lastCall'.threw]_vars

\* C9 witness: a getter ran while a fractional prediction was active
C9_Witness ==
    /\ Completed("getThroughputModel")
    /\ predictedBatchSize # Null
    /\ predictedBatchSize.d > 1
    /\ returned # Null

\* C10: getThroughputModel / getMemoryModel return null when no analysis
\* is stored, the measured model's projection when predictedBatchSize is
\* null, and the projection at predictedBatchSize (throughput
\* 1000 * b / (slope * b + intercept), usage slope * b + intercept)
\* when a prediction is active.
C10_GettersSelectByState ==
    /\ Completed("getThroughputModel")
          => returned =
               IF throughputInfo = Null THEN Null
               ELSE IF predictedBatchSize = Null
               THEN [from |-> "info", info |-> throughputInfo,
                     batchSize |-> Null, value |-> Null]
               ELSE [from |-> "prediction", info |-> throughputInfo,
                     batchSize |-> predictedBatchSize,
                     value |-> Num(1000 * predictedBatchSize.n,
                                   throughputInfo.runtimeModelMs.slope * predictedBatchSize.n
                                     + throughputInfo.runtimeModelMs.intercept
                                         * predictedBatchSize.d)]
    /\ Completed("getMemoryModel")
          => returned =
               IF memoryInfo = Null THEN Null
               ELSE IF predictedBatchSize = Null
               THEN [from |-> "info", info |-> memoryInfo,
                     batchSize |-> Null, value |-> Null]
               ELSE [from |-> "prediction", info |-> memoryInfo,
                     batchSize |-> predictedBatchSize,
                     value |-> UsageAt(predictedBatchSize)]

\* C10 witness: getThroughputModel returned the projection at an active
\* prediction
C10_Witness ==
    /\ Completed("getThroughputModel")
    /\ predictedBatchSize = Int2Num(20)
    /\ returned.from = "prediction"
    /\ returned.batchSize = Int2Num(20)
    /\ returned.value = Int2Num(400)

AdjustingOps == {"updateMemoryUsage", "updateThroughput", "clearPredictions"}

\* the tuple the annotation must show: the input size of the current
\* analysis, its first entry replaced by the rounded prediction when a
\* prediction is active
ShownSize ==
    IF predictedBatchSize # Null
    THEN <<MathRound(predictedBatchSize).n>> \o Tail(inputInfo.inputSize)
    ELSE inputInfo.inputSize

\* C11: after every updateMemoryUsage, updateThroughput or
\* clearPredictions the annotation in the buffer is exactly
\* `@innpv size (v0, v1, ..., vn)` with v0 the rounded prediction (the
\* original first dimension when there is none) and v1..vn the remaining
\* dimensions of the current analysis, and building the annotation never
\* alters the stored inputInfo.
C11_AnnotationIsExact ==
    /\ [](\A op \in AdjustingOps :
             Completed(op)
                 => /\ buffer = InitialBuffer(ShownSize)
                    /\ getTextInRange(buffer, currentAnnotationRange)
                           = AnnotationText([k \in 1..Len(ShownSize) |->
                                                 Int2Num(ShownSize[k])]))
    /\ [][lastCall'.op \in AdjustingOps => inputInfo' = inputInfo]_vars

\* C11 witness: a fractional prediction (5/3) is shown rounded to 2 in
\* front of the unmodified dimensions
C11_Witness ==
    /\ Completed("updateMemoryUsage")
    /\ predictedBatchSize = Num(5, 3)
    /\ inputInfo.inputSize = <<32, 3, 224>>
    /\ buffer = InitialBuffer(<<2, 3, 224>>)

\* the memory and runtime models of the two concrete scenarios
ScenarioMemoryInfo ==
    [usageModelMb |-> [slope |-> 50, intercept |-> 200], maxCapacityMb |-> 8000]

ScenarioThroughputInfo ==
    [runtimeModelMs |-> [slope |-> 2, intercept |-> 10],
     maxThroughput |-> 400, throughputLimit |-> 450]

\* C12: with memory model {slope 50, intercept 200} and capacity 8000,
\* receivedAnalysis yields maxBatchSize = 156 and a following
\* updateMemoryUsage(deltaPct = 0, basePct = 100) yields
\* predictedBatchSize = 156.
C12_MemoryScenario ==
    /\ memoryInfo = ScenarioMemoryInfo => maxBatchSize = Int2Num(156)
    /\ (Completed("updateMemoryUsage") /\ memoryInfo = ScenarioMemoryInfo
            /\ lastCall.args = <<0, 100>>)
          => predictedBatchSize = Int2Num(156)

\* C12 witness: the scenario's adjustment ran
C12_Witness ==
    /\ Completed("updateMemoryUsage")
    /\ memoryInfo = ScenarioMemoryInfo
    /\ lastCall.args = <<0, 100>>
    /\ maxBatchSize = Int2Num(156)
    /\ predictedBatchSize = Int2Num(156)

\* C13: with runtime model {slope 2, intercept 10}, maxThroughput 400 and
\* throughputLimit 450, updateThroughput with basePct + deltaPct = 100
\* targets throughput 400, the inversion gives the finite batch size 20,
\* the overflow branch is not taken, and predictedBatchSize is 20 clamped
\* by Math.max(Math.min(20, maxBatchSize), 1).
C13_ThroughputScenario ==
    (Completed("updateThroughput") /\ throughputInfo = ScenarioThroughputInfo
         /\ LastPct = 100)
        => /\ UpdatedThroughput(throughputInfo, lastCall.args[1], lastCall.args[2])
                  = Int2Num(400)
           /\ opTrace[1].call = "clamp"
           /\ predictedBatchSize = MathMax(MathMin(Int2Num(20), maxBatchSize), One)

\* C13 witness: the scenario's adjustment ran where 20 is within the
\* ceiling
C13_Witness ==
    /\ Completed("updateThroughput")
    /\ throughputInfo = ScenarioThroughputInfo
    /\ LastPct = 100
    /\ opTrace[1].call = "clamp"
    /\ maxBatchSize = Int2Num(156)
    /\ predictedBatchSize = Int2Num(20)

PositionsOf(call) == { i \in 1..Len(opTrace) : opTrace[i].call = call }

\* C15: every annotation rewrite is bracketed: (a) the buffer text is
\* never replaced while the editor change notifications are active, and
\* each replacement has a suspension before it and a resumption after it
\* within the same call; (b) after every call, in particular after every
\* updateMemoryUsage, updateThroughput and clearPredictions, the
\* notifications are active again.
C15_RewriteIsBracketed ==
    /\ editorSubscribed
    /\ \A i \in PositionsOf("setTextInRange") :
          /\ ~opTrace[i].subscribed
          /\ \E j \in PositionsOf("ignoreEditorChanges") : j < i
          /\ \E k \in PositionsOf("subscribeToEditorChanges") : i < k
    /\ \A op \in AdjustingOps :
          Completed(op) => Cardinality(PositionsOf("setTextInRange")) = 1

\* C15 witness: an adjustment replaced the text between a suspension and a
\* resumption and left the notifications active
C15_Witness ==
    /\ Completed("updateThroughput")
    /\ opTrace[2].call = "ignoreEditorChanges" /\ opTrace[2].subscribed
    /\ opTrace[3].call = "setTextInRange" /\ ~opTrace[3].subscribed
    /\ opTrace[5].call = "subscribeToEditorChanges" /\ ~opTrace[5].subscribed
    /\ editorSubscribed

\* the index in the undo history of the checkpoint of the current analysis
CurrentCheckpointIndex == CheckpointIndex(undoStack, currentUndoCheckpoint.id)

\* C16: every rewrite is grouped into the checkpoint the most recent
\* receivedAnalysis opened: that checkpoint stays in the history, at most
\* one undo step lies above it, and it is exactly one step, on top of the
\* history, after any adjustment or clear; receivedAnalysis pushes a new
\* checkpoint on top, and a rewrite never changes the history up to the
\* checkpoint of the current analysis.
C16_RewritesGroupIntoCheckpoint ==
    /\ [](currentUndoCheckpoint # Null
             => /\ CurrentCheckpointIndex # 0
                /\ ChangesSince(undoStack, currentUndoCheckpoint.id) <= 1)
    /\ [](\A op \in AdjustingOps :
             Completed(op)
                 => /\ CurrentCheckpointIndex = Len(undoStack) - 1
                    /\ undoStack[Len(undoStack)].kind = "change")
    /\ [](Completed("receivedAnalysis")
             => /\ currentUndoCheckpoint.id = nextCheckpointId - 1
                /\ CurrentCheckpointIndex = Len(undoStack))
    /\ [][(lastCall'.op \in AdjustingOps /\ currentUndoCheckpoint # Null)
             => /\ currentUndoCheckpoint' = currentUndoCheckpoint
                /\ SubSeq(undoStack', 1, CurrentCheckpointIndex)
                       = SubSeq(undoStack, 1, CurrentCheckpointIndex)]_vars

\* C16 witness: under a second analysis the history is the first
\* checkpoint with its one grouped step, then the second with its own
C16_Witness ==
    /\ Completed("clearPredictions")
    /\ currentUndoCheckpoint = [id |-> 2]
    /\ undoStack = << [kind |-> "checkpoint", id |-> 1], [kind |-> "change", id |-> 0],
                      [kind |-> "checkpoint", id |-> 2], [kind |-> "change", id |-> 0] >>

\* C17: the batch size written into the annotation after an adjustment,
\* v0 = round(predictedBatchSize), satisfies 1 <= v0 <= maxBatchSize and its
\* usage slope * v0 + intercept is within maxCapacityMb.  The code rounds
\* to the nearest integer, so a prediction with a fractional part of one
\* half or more is written one above.
C17_WrittenBatchSizeIsFeasible ==
    \A op \in {"updateMemoryUsage", "updateThroughput"} :
        Completed(op)
            => /\ JSLe(One, MathRound(predictedBatchSize))
               /\ JSLe(MathRound(predictedBatchSize), maxBatchSize)
               /\ JSLe(UsageAt(MathRound(predictedBatchSize)),
                       Int2Num(memoryInfo.maxCapacityMb))

\* the place of the annotation in the file as it is now
AnnotationPlace ==
    LET i == AnalyzeBuffer(buffer)
    IN  Range(i.annotationStart.line, i.annotationStart.column,
              i.annotationEnd.line, i.annotationEnd.column)

\* C18: the tracked range is always the place of the annotation in the
\* file and the text around it is the file's; each completed rewrite
\* replaces exactly the range tracked before it (the range of the analysis
\* for the first rewrite, the range the previous rewrite returned
\* afterwards) and tracks the range of the text it wrote.
C18_RangeTracksAnnotation ==
    /\ [](currentAnnotationRange # Null
             => /\ currentAnnotationRange = AnnotationPlace
                /\ Len(buffer) = 3
                /\ buffer[1] = <<"x", " ", "=", " ", "1">>
                /\ buffer[3] = <<"y">>
                /\ buffer[2] = <<"#", " ">>
                                   \o getTextInRange(buffer, currentAnnotationRange)
                                   \o <<" ", "!">>)
    /\ [][(lastCall'.op \in AdjustingOps /\ ~lastCall'.threw)
             => LET old == currentAnnotationRange
                    new == currentAnnotationRange'
                    line == buffer[old.start.row + 1]
                IN  /\ new.start = old.start
                    /\ new.end.row = old.end.row
                    /\ buffer' = [buffer EXCEPT ![old.start.row + 1] =
                           SubSeq(line, 1, old.start.column)
                               \o getTextInRange(buffer', new)
                               \o SubSeq(line, old.end.column + 1, Len(line))]]_vars

\* C18 witness: under a second analysis, made when the annotation was
\* `(156, 3, 224)`, a rewrite to the shorter `(1, 3, 224)` moved the end of
\* the tracked range
C18_Witness ==
    /\ Completed("updateMemoryUsage")
    /\ inputInfo.inputSize = <<156, 3, 224>>
    /\ inputInfo.annotationEnd.column = 27
    /\ buffer = InitialBuffer(<<1, 3, 224>>)
    /\ currentAnnotationRange = Range(1, 2, 1, 25)

\* the prediction updateMemoryUsage must store for a percentage, from the
\* memory model alone
ExpectedFromUsage(mInfo, pct) ==
    LET usage == IF pct >= 100 THEN Int2Num(mInfo.maxCapacityMb)
                 ELSE Num(pct * mInfo.maxCapacityMb, 100)
        b == Num(usage.n - mInfo.usageModelMb.intercept * usage.d,
                 mInfo.usageModelMb.slope * usage.d)
    IN  IF JSLt(b, One) THEN One ELSE b

\* the prediction updateThroughput must store for a percentage, from the
\* throughput model and the ceiling alone (runtime intercept positive)
ExpectedFromThroughput(tInfo, ceiling, pct) ==
    LET raw == Num(pct * tInfo.maxThroughput, 100)
        target == IF pct <= 0 THEN Int2Num(0)
                  ELSE IF JSLt(Int2Num(tInfo.throughputLimit), raw)
                  THEN Int2Num(tInfo.throughputLimit)
                  ELSE raw
        denominator == 1000 * target.d - tInfo.runtimeModelMs.slope * target.n
        clamp(b) == LET low == IF JSLt(ceiling, b) THEN ceiling ELSE b
                    IN  IF JSLt(low, One) THEN One ELSE low
    IN  IF denominator < 0 THEN ceiling
        ELSE IF denominator = 0 THEN clamp(ceiling)
        ELSE clamp(Num(tInfo.runtimeModelMs.intercept * target.n, denominator))

\* C19: the prediction an adjustment stores is a function of the current
\* models, maxBatchSize and the sum basePct + deltaPct alone, and the
\* annotation written is a function of that prediction and the current
\* input size: nothing of the calls made before it shows in either.
C19_AdjustmentIsHistoryIndependent ==
    /\ Completed("updateMemoryUsage")
          => predictedBatchSize = ExpectedFromUsage(memoryInfo, LastPct)
    /\ Completed("updateThroughput")
          => predictedBatchSize
                 = ExpectedFromThroughput(throughputInfo, maxBatchSize, LastPct)
    /\ \A op \in {"updateMemoryUsage", "updateThroughput"} :
          Completed(op) => buffer = InitialBuffer(ShownSize)

\* C19 witness: under a second analysis, after rewrites under the first,
\* the adjustment 100 - 50 stored the prediction of 50 percent
C19_Witness ==
    /\ Completed("updateMemoryUsage")
    /\ lastCall.args = <<-50, 100>>
    /\ currentUndoCheckpoint = [id |-> 2]
    /\ ChangesSince(undoStack, 1) = 1
    /\ memoryInfo = ScenarioMemoryInfo
    /\ predictedBatchSize = Int2Num(76)

\* C20: before any analysis, updateMemoryUsage, updateThroughput and
\* clearPredictions throw and change nothing: the store's fields stay
\* null, the buffer and its undo history are untouched, no collaborator is
\* called (so the editor change notifications stay active) and nothing is
\* emitted.
C20_EmptyStateCallsChangeNothing ==
    /\ [](memoryInfo = Null
             => /\ throughputInfo = Null /\ inputInfo = Null
                /\ predictedBatchSize = Null /\ maxBatchSize = Null
                /\ currentAnnotationRange = Null /\ currentUndoCheckpoint = Null
                /\ undoStack = <<>>
                /\ editorSubscribed)
    /\ [][(memoryInfo = Null /\ lastCall'.op \in AdjustingOps)
             => /\ lastCall'.threw
                /\ opTrace' = <<>>
                /\ UNCHANGED <<throughputInfo, memoryInfo, inputInfo, predictedBatchSize,
                               maxBatchSize, currentAnnotationRange,
                               currentUndoCheckpoint, listeners, buffer, undoStack,
                               nextCheckpointId, editorSubscribed>>]_vars

\* C20 witness: clearPredictions was called before any analysis, with a
\* listener registered, and threw
C20_Witness ==
    /\ lastCall.op = "clearPredictions"
    /\ lastCall.threw
    /\ memoryInfo = Null
    /\ listeners = <<"f">>
    /\ opTrace = <<>>
    /\ editorSubscribed

====
